---- MODULE Spec2Model ----
(***************************************************************************)
(* Model of SupabaseConnector.uploadData (src/src/plugins/powerSync.ts,    *)
(* lines 402-461) together with the two collaborators it talks to: the     *)
(* local store's queue of pending CRUD transactions and the rows of the    *)
(* remote backend.                                                         *)
(*                                                                         *)
(* Strings that the code inspects character by character (the fault codes  *)
(* matched by FATAL_RESPONSE_CODES) are sequences of one-character         *)
(* strings; an optional value (T | null) is a sequence of length 0 or 1.   *)
(***************************************************************************)
EXTENDS Integers, Sequences, FiniteSets, TLC

\* ------------------------------------------------------------------ bounds
\* Longest CRUD transaction and largest number of CRUD entries pending.
MaxBatchLen == 3
MaxPending == 3
\* Longest fault code enumerated for the classifier.
MaxCodeLen == 6

\* ------------------------------------------------------------ value spaces
Tables == {"todos"}
Ids == {1}
Columns == {"completed"}
\* values a column may hold, and the ones the local writes carry
Values == {0, 1}
PayloadValues == {1}
\* the column default of the backend table (completed ... default false)
DefaultValue == 0

PUT == "PUT"
PATCH == "PATCH"
DELETE == "DELETE"
UpdateType == {PUT, PATCH, DELETE}

\* op.opData: a mapping from some of the columns to values
OpData == UNION {[D -> PayloadValues] : D \in SUBSET Columns}
NoData == [c \in {} |-> DefaultValue]

\* CrudEntry: table, op, id, opData (opData is absent for DELETE)
CrudEntry ==
    {[table |-> t, op |-> o, id |-> i, opData |-> d] :
        t \in Tables, o \in {PUT, PATCH}, i \in Ids, d \in OpData}
    \cup {[table |-> t, op |-> DELETE, id |-> i, opData |-> NoData] :
        t \in Tables, i \in Ids}

RECURSIVE SeqsUpTo(_, _)
SeqsUpTo(S, n) ==
    IF n = 0 THEN {<<>>}
    ELSE LET shorter == SeqsUpTo(S, n - 1)
         IN shorter \cup {Append(s, x) : s \in {t \in shorter : Len(t) = n - 1}, x \in S}

\* transaction.crud of one CRUD transaction: a non-empty list of entries
CrudBatches == {b \in SeqsUpTo(CrudEntry, MaxBatchLen) : Len(b) >= 1}

RECURSIVE SumLen(_)
SumLen(q) == IF q = <<>> THEN 0 ELSE Len(Head(q)) + SumLen(Tail(q))

RECURSIVE QueuesOf(_)
QueuesOf(budget) ==
    IF budget = 0 THEN {<<>>}
    ELSE {<<>>} \cup
         UNION {{<<b>> \o q : q \in QueuesOf(budget - Len(b))} :
                    b \in {c \in CrudBatches : Len(c) <= budget}}

\* the backend tables: per table, a function from the ids present to rows
Rows == [Columns -> Values]
TableStates == UNION {[P -> Rows] : P \in SUBSET Ids}
BackendStates == [Tables -> TableStates]

\* ------------------------------------------------- fault classification
\* A JavaScript string is a sequence of characters.
c23505 == <<"2", "3", "5", "0", "5">>
c42501 == <<"4", "2", "5", "0", "1">>
c08006 == <<"0", "8", "0", "0", "6">>
c22P02 == <<"2", "2", "P", "0", "2">>

\* "." of a RegExp without the s flag matches anything but a line terminator
LineTerminators == {"\n", "\r"}

Lit(ch) == [dot |-> FALSE, ch |-> ch]
Dot == [dot |-> TRUE, ch |-> "."]

\* new RegExp("^22...$"), new RegExp("^23...$"), new RegExp("^42501$")
FATAL_RESPONSE_CODES ==
    << [start |-> TRUE, atoms |-> <<Lit("2"), Lit("2"), Dot, Dot, Dot>>, end |-> TRUE],
       [start |-> TRUE, atoms |-> <<Lit("2"), Lit("3"), Dot, Dot, Dot>>, end |-> TRUE],
       [start |-> TRUE,
        atoms |-> <<Lit("4"), Lit("2"), Lit("5"), Lit("0"), Lit("1")>>,
        end |-> TRUE] >>

AtomMatches(a, ch) == IF a.dot THEN ch \notin LineTerminators ELSE ch = a.ch

\* variant of MatchesAt: the "$" of the pattern is ignored
MatchesAt_NoEndAnchor(re, s, p) ==
    LET last == p + Len(re.atoms) - 1
    IN /\ last <= Len(s)
       /\ \A j \in 1..Len(re.atoms) : AtomMatches(re.atoms[j], s[p + j - 1])

\* the atoms of re match s from position p on (and up to its end under "$")
MatchesAt(re, s, p) ==
    LET last == p + Len(re.atoms) - 1
    IN /\ last <= Len(s)
       /\ \A j \in 1..Len(re.atoms) : AtomMatches(re.atoms[j], s[p + j - 1])
       /\ re.end => last = Len(s)

\* regex.test(s): a match starting anywhere, or at the start only under "^"
RegexTest(re, s) ==
    \E p \in (IF re.start THEN {1} ELSE 1..(Len(s) + 1)) : MatchesAt(re, s, p)

\* A thrown value or an error object, as far as the catch block looks at it:
\* whether its code is a string, and that string.
CodedError(code) == [hasCode |-> TRUE, code |-> code]
NoCodeError == [hasCode |-> FALSE, code |-> <<>>]

\* typeof ex.code == "string" && FATAL_RESPONSE_CODES.some(regex => regex.test(ex.code))
IsFatal(e) ==
    /\ e.hasCode
    /\ \E r \in 1..Len(FATAL_RESPONSE_CODES) : RegexTest(FATAL_RESPONSE_CODES[r], e.code)

\* ------------------------------------------------------ backend requests
\* What one loop iteration sends: table.upsert(record), table.update(opData)
\* .eq("id", id) or table.delete().eq("id", id).
RequestOf(op) ==
    CASE op.op = PUT ->
            [table |-> op.table, method |-> "upsert", id |-> op.id, data |-> op.opData]
      [] op.op = PATCH ->
            [table |-> op.table, method |-> "update", id |-> op.id, data |-> op.opData]
      [] op.op = DELETE ->
            [table |-> op.table, method |-> "delete", id |-> op.id, data |-> NoData]

\* variant of Upsert: a conflict on id leaves the existing row alone
Upsert_IgnoreDuplicates(tbl, id, data) ==
    [i \in DOMAIN tbl \cup {id} |->
        IF i = id /\ id \notin DOMAIN tbl
        THEN [c \in Columns |-> IF c \in DOMAIN data THEN data[c] ELSE DefaultValue]
        ELSE tbl[i]]

\* upsert of {...opData, id}: insert the row, or on a conflict on id set the
\* columns the record carries (merge-duplicates, the resolution upsert uses)
Upsert(tbl, id, data) ==
    [i \in DOMAIN tbl \cup {id} |->
        IF i = id
        THEN [c \in Columns |->
                IF c \in DOMAIN data THEN data[c]
                ELSE IF id \in DOMAIN tbl THEN tbl[id][c] ELSE DefaultValue]
        ELSE tbl[i]]

\* variant of Update: the .eq("id", id) filter is missing, every row is set
Update_NoFilter(tbl, id, data) ==
    [i \in DOMAIN tbl |->
        [c \in Columns |-> IF c \in DOMAIN data THEN data[c] ELSE tbl[i][c]]]

\* update(opData).eq("id", id): set the payload's columns on the matching row
Update(tbl, id, data) ==
    [i \in DOMAIN tbl |->
        IF i = id
        THEN [c \in Columns |-> IF c \in DOMAIN data THEN data[c] ELSE tbl[i][c]]
        ELSE tbl[i]]

\* delete().eq("id", id)
Delete(tbl, id) == [i \in DOMAIN tbl \ {id} |-> tbl[i]]

ApplyRequest(b, r) ==
    [b EXCEPT ![r.table] =
        CASE r.method = "upsert" -> Upsert(@, r.id, r.data)
          [] r.method = "update" -> Update(@, r.id, r.data)
          [] r.method = "delete" -> Delete(@, r.id)]

RECURSIVE ApplyAll(_, _)
ApplyAll(b, ops) ==
    IF ops = <<>> THEN b
    ELSE ApplyAll(ApplyRequest(b, RequestOf(Head(ops))), Tail(ops))

\* ------------------------------------------------------------------ state
VARIABLES
    queue,          \* the local store's pending CRUD transactions, oldest first
    backend,        \* the rows of the remote tables
    poison,         \* when not empty: the entries the backend always answers with
                    \* a permanent fault, every other entry with success
    pc,             \* where uploadData is: "idle", "loop", "await" or "catch"
    transaction,    \* what getNextCrudTransaction returned: <<>> (null) or <<crud>>
    idx,            \* entries of transaction.crud the for loop is done with
    lastOp,         \* <<>> (null) or <<op>>
    inflight,       \* <<>> or <<the request awaiting its response>>
    ex,             \* <<>> or <<the value the catch block caught>>
    requests,       \* requests sent by this invocation, in order
    completeCalls,  \* calls of transaction.complete() by this invocation
    markers,        \* completion markers this invocation wrote to the store
    fault,          \* <<>> or <<the fault the backend answered in this invocation>>
    outcome,        \* of this invocation: "none" (running), "returned", "raised",
                    \* or "rejected" when getNextCrudTransaction itself failed
    pending0,       \* the queue when this invocation started
    prevFault,      \* position of the transient fault the previous invocation
                    \* raised for; 0 when it did not
    classify,       \* a value put before the catch block's test, and its verdict
    replay,         \* a transaction sent twice: up to a transient fault, then whole
    dispatch,       \* one entry sent to a backend of several tables and rows
    ready,          \* SupabaseConnector.ready
    currentSession, \* SupabaseConnector.currentSession: <<>> (null) or <<session>>
    authSession,    \* the session the auth client holds: <<>> or <<session>>
    initAwaiting,   \* init() calls awaiting client.auth.getSession()
    loginAwaiting,  \* login() calls awaiting client.auth.signInWithPassword()
    running,        \* the connector code running synchronously: <<>> or <<its frame>>
    calls,          \* calls made on the connector and set-ups of the view so far
    fetches,        \* getSession() requests made by init()
    updates,        \* the arguments of the updateSession() calls, in order
    events,         \* the notifications iterateListeners delivered, in order
    loginErrors,    \* login() calls that threw the sign-in error
    viewListeners,  \* initialized listeners registered by TodoList set-ups
    pushes,         \* the routes pushed by the TodoList view, in order
    newTodo,        \* the local list's input: ref<string>
    todos,          \* the local list: ref<Todo[]>
    todoOp          \* the last operation on the local list and what it started from

\* what uploadData never writes
connVars == <<ready, currentSession, authSession, initAwaiting, loginAwaiting, running>>
connHist == <<calls, fetches, updates, events, loginErrors>>
viewVars == <<viewListeners, pushes>>
todoVars == <<newTodo, todos, todoOp>>
appVars == <<dispatch, connVars, connHist, viewVars, todoVars>>
sideVars == <<poison, classify, replay, appVars>>
storeVars == <<queue, backend, sideVars>>
callVars == <<pc, transaction, idx, lastOp, inflight, ex>>
histVars == <<requests, completeCalls, markers, fault, outcome, pending0, prevFault>>
vars == <<storeVars, callVars, histVars>>

\* codes the backend answers with here: a permanent one and a transient one
FaultCodes == {c23505, c08006}
\* result.error of a response, and values an awaited call may reject with
Errors == {CodedError(c) : c \in FaultCodes} \cup {NoCodeError}

Crud == transaction[1]

\* the per-invocation bookkeeping of a fresh call of uploadData
FreshCall ==
    /\ lastOp' = <<>>
    /\ inflight' = <<>>
    /\ ex' = <<>>
    /\ idx' = 0
    /\ requests' = <<>>
    /\ completeCalls' = 0
    /\ markers' = 0
    /\ fault' = <<>>
    /\ pending0' = queue
    /\ prevFault' = IF outcome = "raised" /\ fault # <<>> /\ ~IsFatal(fault[1].error)
                    THEN fault[1].at ELSE 0

\* uploadData has not been called yet
CallInit ==
    /\ pc = "idle"
    /\ transaction = <<>>
    /\ idx = 0
    /\ lastOp = <<>>
    /\ inflight = <<>>
    /\ ex = <<>>
    /\ requests = <<>>
    /\ completeCalls = 0
    /\ markers = 0
    /\ fault = <<>>
    /\ outcome = "none"
    /\ pending0 = queue
    /\ prevFault = 0

ClassifyIdle == classify = [ex |-> NoCodeError, verdict |-> "none"]

ReplayIdle ==
    replay = [initial |-> [t \in Tables |-> NoData], rows |-> [t \in Tables |-> NoData],
              crud |-> <<>>, failAt |-> 0, pass |-> 0, idx |-> 0]

DispatchIdle == dispatch = [phase |-> "idle"]

\* lines 332-351: the connector as constructed, nothing called on it yet
ConnectorNew ==
    /\ ready = FALSE
    /\ currentSession = <<>>
    /\ initAwaiting = 0
    /\ loginAwaiting = 0
    /\ running = <<>>
    /\ calls = 0
    /\ fetches = 0
    /\ updates = <<>>
    /\ events = <<>>
    /\ loginErrors = 0
    /\ viewListeners = 0
    /\ pushes = <<>>

\* lines 97-98: the local list as set up
TodoListNew ==
    /\ newTodo = <<>>
    /\ todos = <<>>
    /\ todoOp = [op |-> "none"]

AppIdle ==
    /\ DispatchIdle
    /\ ConnectorNew
    /\ authSession = <<>>
    /\ TodoListNew

Init ==
    /\ queue \in QueuesOf(MaxPending)
    /\ backend \in BackendStates
    /\ poison = {}
    /\ AppIdle
    /\ CallInit
    /\ ClassifyIdle
    /\ ReplayIdle

\* ---------------------------------------------------------------- actions
\* line 403: getNextCrudTransaction itself rejects; outside the try, so the
\* rejection is the caller's
UploadGetThrows ==
    /\ pc = "idle"
    /\ transaction' = <<>>
    /\ outcome' = "rejected"
    /\ pc' = "idle"
    /\ FreshCall
    /\ UNCHANGED storeVars

\* variant of UploadNoTransaction: the null check is missing, transaction.crud
\* of null throws inside the try and the TypeError is thrown on
UploadNoTransaction_NoNullCheck ==
    /\ pc = "idle"
    /\ queue = <<>>
    /\ transaction' = <<>>
    /\ outcome' = "raised"
    /\ pc' = "idle"
    /\ FreshCall
    /\ UNCHANGED storeVars

\* lines 403-407: no transaction pending, return
UploadNoTransaction ==
    /\ pc = "idle"
    /\ queue = <<>>
    /\ transaction' = <<>>
    /\ outcome' = "returned"
    /\ pc' = "idle"
    /\ FreshCall
    /\ UNCHANGED storeVars

\* variant of UploadBegin: the loop resumes at the entry the previous
\* invocation failed on
UploadBegin_Resume ==
    /\ pc = "idle"
    /\ queue # <<>>
    /\ transaction' = <<Head(queue)>>
    /\ outcome' = "none"
    /\ pc' = "loop"
    /\ lastOp' = <<>>
    /\ inflight' = <<>>
    /\ ex' = <<>>
    /\ requests' = <<>>
    /\ completeCalls' = 0
    /\ markers' = 0
    /\ fault' = <<>>
    /\ pending0' = queue
    /\ prevFault' = IF outcome = "raised" /\ fault # <<>> /\ ~IsFatal(fault[1].error)
                    THEN fault[1].at ELSE 0
    /\ idx' = IF prevFault' >= 1 THEN prevFault' - 1 ELSE 0
    /\ UNCHANGED storeVars

\* lines 403-410: a transaction is pending, enter the try block
UploadBegin ==
    /\ pc = "idle"
    /\ queue # <<>>
    /\ transaction' = <<Head(queue)>>
    /\ outcome' = "none"
    /\ pc' = "loop"
    /\ FreshCall
    /\ UNCHANGED storeVars

\* variant of LoopDispatch: the request is not awaited, the loop moves on
\* to the next entry while it is in flight
LoopDispatch_NoAwait ==
    /\ pc = "loop"
    /\ idx < Len(Crud)
    /\ LET op == Crud[idx + 1]
       IN /\ lastOp' = <<op>>
          /\ inflight' = <<RequestOf(op)>>
          /\ requests' = Append(requests, RequestOf(op))
    /\ idx' = idx + 1
    /\ pc' = "loop"
    /\ UNCHANGED <<storeVars, transaction, ex>>
    /\ UNCHANGED <<completeCalls, markers, fault, outcome, pending0, prevFault>>

\* lines 413-427: the next entry of transaction.crud is sent to its table
LoopDispatch ==
    /\ pc = "loop"
    /\ idx < Len(Crud)
    /\ LET op == Crud[idx + 1]
       IN /\ lastOp' = <<op>>
          /\ inflight' = <<RequestOf(op)>>
          /\ requests' = Append(requests, RequestOf(op))
    /\ pc' = "await"
    /\ UNCHANGED <<storeVars, transaction, idx, ex>>
    /\ UNCHANGED <<completeCalls, markers, fault, outcome, pending0, prevFault>>

\* lines 420-430: the response carries no error; on to the next entry
RespondOk ==
    /\ pc = "await"
    /\ lastOp[1] \notin poison
    /\ backend' = ApplyRequest(backend, inflight[1])
    /\ idx' = idx + 1
    /\ inflight' = <<>>
    /\ pc' = "loop"
    /\ UNCHANGED <<queue, sideVars, transaction, lastOp, ex, histVars>>

\* the errors the backend may put into result.error for entry op
ResultErrorsFor(op) ==
    IF poison = {} THEN Errors
    ELSE IF op \in poison THEN {CodedError(c23505)} ELSE {}

\* lines 430-435: the response carries result.error; a new Error built from
\* its message is thrown
RespondError ==
    /\ pc = "await"
    /\ \E e \in ResultErrorsFor(lastOp[1]) :
          fault' = <<[at |-> idx + 1, channel |-> "result", error |-> e]>>
    /\ ex' = <<NoCodeError>>
    /\ inflight' = <<>>
    /\ pc' = "catch"
    /\ UNCHANGED <<storeVars, transaction, idx, lastOp>>
    /\ UNCHANGED <<requests, completeCalls, markers, outcome, pending0, prevFault>>

\* lines 420-426: the awaited request rejects; the write may or may not have
\* reached the backend
RespondThrows ==
    /\ pc = "await"
    /\ poison = {}
    /\ \E x \in Errors :
          /\ fault' = <<[at |-> idx + 1, channel |-> "thrown", error |-> x]>>
          /\ ex' = <<x>>
    /\ backend' \in {backend, ApplyRequest(backend, inflight[1])}
    /\ inflight' = <<>>
    /\ pc' = "catch"
    /\ UNCHANGED <<queue, sideVars, transaction, idx, lastOp>>
    /\ UNCHANGED <<requests, completeCalls, markers, outcome, pending0, prevFault>>

\* variant of LoopFinished: the loop is left after its first iteration
LoopFinished_AfterFirst == idx >= 1

\* the for loop has run through transaction.crud
LoopFinished == idx = Len(Crud)

\* line 438: transaction.complete() removes the transaction from the queue
CompleteOk ==
    /\ pc = "loop"
    /\ LoopFinished
    /\ completeCalls' = completeCalls + 1
    /\ markers' = markers + 1
    /\ queue' = Tail(queue)
    /\ outcome' = "returned"
    /\ pc' = "idle"
    /\ UNCHANGED <<backend, sideVars, transaction, idx, lastOp, inflight, ex>>
    /\ UNCHANGED <<requests, fault, pending0, prevFault>>

\* line 438: transaction.complete() rejects, inside the try
CompleteThrows ==
    /\ pc = "loop"
    /\ LoopFinished
    /\ completeCalls' = completeCalls + 1
    /\ \E x \in Errors : ex' = <<x>>
    /\ pc' = "catch"
    /\ UNCHANGED <<storeVars, transaction, idx, lastOp, inflight>>
    /\ UNCHANGED <<requests, markers, fault, outcome, pending0, prevFault>>

\* lines 441-454: the caught value has a fatal code; the transaction is
\* completed and the call returns
CatchDiscardOk ==
    /\ pc = "catch"
    /\ IsFatal(ex[1])
    /\ completeCalls' = completeCalls + 1
    /\ markers' = markers + 1
    /\ queue' = Tail(queue)
    /\ outcome' = "returned"
    /\ pc' = "idle"
    /\ UNCHANGED <<backend, sideVars, transaction, idx, lastOp, inflight, ex>>
    /\ UNCHANGED <<requests, fault, pending0, prevFault>>

\* line 454: transaction.complete() rejects inside the catch block
CatchDiscardThrows ==
    /\ pc = "catch"
    /\ IsFatal(ex[1])
    /\ completeCalls' = completeCalls + 1
    /\ outcome' = "raised"
    /\ pc' = "idle"
    /\ UNCHANGED <<storeVars, transaction, idx, lastOp, inflight, ex>>
    /\ UNCHANGED <<requests, markers, fault, pending0, prevFault>>

\* variant of CatchRethrow: the caught value is swallowed and the call returns
CatchRethrow_Swallows ==
    /\ pc = "catch"
    /\ ~IsFatal(ex[1])
    /\ outcome' = "returned"
    /\ pc' = "idle"
    /\ UNCHANGED <<storeVars, transaction, idx, lastOp, inflight, ex>>
    /\ UNCHANGED <<requests, completeCalls, markers, fault, pending0, prevFault>>

\* variant of CatchRethrow: the transaction is completed before the rethrow
CatchRethrow_Completes ==
    /\ pc = "catch"
    /\ ~IsFatal(ex[1])
    /\ completeCalls' = completeCalls + 1
    /\ markers' = markers + 1
    /\ queue' = Tail(queue)
    /\ outcome' = "raised"
    /\ pc' = "idle"
    /\ UNCHANGED <<backend, sideVars, transaction, idx, lastOp, inflight, ex>>
    /\ UNCHANGED <<requests, fault, pending0, prevFault>>

\* lines 455-459: any other caught value is thrown on to the caller
CatchRethrow ==
    /\ pc = "catch"
    /\ ~IsFatal(ex[1])
    /\ outcome' = "raised"
    /\ pc' = "idle"
    /\ UNCHANGED <<storeVars, transaction, idx, lastOp, inflight, ex>>
    /\ UNCHANGED <<requests, completeCalls, markers, fault, pending0, prevFault>>

Next ==
    \/ UploadGetThrows
    \/ UploadNoTransaction
    \/ UploadBegin
    \/ LoopDispatch
    \/ RespondOk
    \/ RespondError
    \/ RespondThrows
    \/ CompleteOk
    \/ CompleteThrows
    \/ CatchDiscardOk
    \/ CatchDiscardThrows
    \/ CatchRethrow

Spec == Init /\ [][Next]_vars

\* ------------------------------------------------------------ vocabulary
\* an invocation that got a pending transaction has returned or raised
Ended == transaction # <<>> /\ outcome \in {"returned", "raised"}

\* the requests for entries 1..k of the transaction, in order
ExpectedRequests(k) == [j \in 1..k |-> RequestOf(Crud[j])]

\* the backend answered an entry of this invocation with a fault whose code
\* is permanent, respectively with any other fault
PermanentFault == fault # <<>> /\ IsFatal(fault[1].error)
TransientFault == fault # <<>> /\ ~IsFatal(fault[1].error)

\* ------------------------------------------------------------------ C1
\* C1: when the backend answers entry k with a fault whose code is permanent,
\* the invocation has sent the requests for entries 1..k in order and no
\* other, and has called transaction.complete().
C1_PermanentFaultCompletes ==
    (Ended /\ PermanentFault) =>
        /\ requests = ExpectedRequests(fault[1].at)
        /\ completeCalls >= 1

\* ------------------------------------------------------------------ C2
\* C2: when the backend answers entry k with a transient fault, the
\* invocation sends the requests for entries 1..k in order and no other,
\* never calls transaction.complete(), leaves the queue as it was and ends
\* by raising.
C2_TransientFaultAborts ==
    (transaction # <<>> /\ TransientFault) =>
        /\ requests = ExpectedRequests(fault[1].at)
        /\ completeCalls = 0
        /\ markers = 0
        /\ queue = pending0
        /\ pc = "idle" => outcome = "raised"

C2_Witness ==
    /\ Ended
    /\ TransientFault
    /\ fault[1].channel = "result"
    /\ fault[1].error = CodedError(c08006)
    /\ Len(Crud) = 3
    /\ fault[1].at = 2
    /\ outcome = "raised"

\* ------------------------------------------------------------------ C3
\* C3: when the backend reports a permanent fault (and the store accepts the
\* completion), the invocation returns normally.
C3_PermanentFaultAbsorbed ==
    (Ended /\ PermanentFault /\ completeCalls = markers) => outcome = "returned"

\* ------------------------------------------------------------------ C4
\* C4: when the backend answers every entry with success, all n requests are
\* sent once each in the order of transaction.crud, and
\* transaction.complete() is called, and only after the n-th success.
C4_AllSuccessInOrderThenComplete ==
    /\ (transaction # <<>> /\ fault = <<>> /\ completeCalls > 0) =>
            /\ requests = ExpectedRequests(Len(Crud))
            /\ idx = Len(Crud)
            /\ inflight = <<>>
    /\ (Ended /\ fault = <<>>) =>
            /\ requests = ExpectedRequests(Len(Crud))
            /\ completeCalls >= 1

C4_Witness ==
    /\ Ended
    /\ fault = <<>>
    /\ Len(Crud) = 3
    /\ Crud[1] # Crud[2]
    /\ Crud[2] # Crud[3]
    /\ markers = 1
    /\ outcome = "returned"

\* ------------------------------------------------------------------ C5
\* C5: a call that finds the queue empty (getNextCrudTransaction resolving
\* to nothing) returns normally, sends no request, writes no completion
\* marker and changes neither the queue nor the backend.
C5_NoTransactionNoEffects ==
    [][(pc = "idle" /\ queue = <<>> /\ outcome' # "rejected") =>
        /\ outcome' = "returned"
        /\ pc' = "idle"
        /\ requests' = <<>>
        /\ completeCalls' = 0
        /\ markers' = 0
        /\ queue' = queue
        /\ backend' = backend]_vars

C5_Witness ==
    /\ pc = "idle"
    /\ outcome = "returned"
    /\ transaction = <<>>
    /\ pending0 = <<>>
    /\ backend["todos"] # NoData

\* ------------------------------------------------------------------ C7
\* C7: once an invocation on a pending transaction has returned or raised,
\* either it wrote one completion marker and the transaction left the queue,
\* or it wrote none and the queue is as it was; a marker is written at most
\* once, and only after all entries succeeded or on the discard branch of
\* the catch block.
C7_CompleteOrUntouched ==
    /\ markers <= 1
    /\ Ended =>
        /\ \/ markers = 1 /\ queue = Tail(pending0)
           \/ markers = 0 /\ queue = pending0
        /\ markers = 1 =>
            \/ fault = <<>> /\ requests = ExpectedRequests(Len(Crud))
            \/ ex # <<>> /\ IsFatal(ex[1])

C7_Witness ==
    /\ Ended
    /\ markers = 1
    /\ completeCalls = 2
    /\ Len(pending0) = 2
    /\ pending0[1] # pending0[2]

\* ------------------------------------------------------------------ C9
\* C9: the invocation that follows one that raised for a transient fault at
\* entry k takes the transaction at the head of the queue again and sends
\* its requests from entry 1 on, whatever k was.
C9_RestartsFromFirstEntry ==
    (prevFault >= 1 /\ transaction # <<>>) =>
        /\ Crud = Head(pending0)
        /\ prevFault <= Len(Crud)
        /\ Len(requests) \in {idx, idx + 1}
        /\ requests = ExpectedRequests(Len(requests))

C9_Witness ==
    /\ prevFault = 3
    /\ transaction # <<>>
    /\ Len(requests) = 1
    /\ Crud[1] # Crud[3]
    /\ Crud[1] # Crud[2]

\* ------------------------------------------------------------------ C6
\* The catch block's test on its own: a value is put before it and the
\* branch taken is recorded.
CodeAlphabet == {"0", "2", "3", "4", "\n"}
NamedCodes == {c23505, c42501, c08006, c22P02}
ClassifyInputs ==
    {CodedError(c) : c \in SeqsUpTo(CodeAlphabet, MaxCodeLen) \cup NamedCodes}
    \cup {NoCodeError}

ClassifyInit ==
    /\ queue = <<>>
    /\ backend = [t \in Tables |-> NoData]
    /\ poison = {}
    /\ AppIdle
    /\ CallInit
    /\ ReplayIdle
    /\ \E e \in ClassifyInputs : classify = [ex |-> e, verdict |-> "none"]

\* lines 441-459: the discard branch or the rethrow branch
Classify ==
    /\ classify.verdict = "none"
    /\ classify' = [classify EXCEPT
            !.verdict = IF IsFatal(classify.ex) THEN "permanent" ELSE "transient"]
    /\ UNCHANGED <<queue, backend, poison, replay, appVars, callVars, histVars>>

ClassifySpec == ClassifyInit /\ [][Classify]_vars

\* what the claim calls the fixed patterns: five characters starting with
\* 22, five characters starting with 23, exactly 42501
InFixedPatterns(code) ==
    \/ Len(code) = 5 /\ code[1] = "2" /\ code[2] \in {"2", "3"}
    \/ code = c42501

\* C6: code 23505 is classified permanent, code 42501 permanent, code 08006
\* transient, every code outside the fixed patterns transient, and a value
\* without a string code transient.
C6_Classification ==
    classify.verdict # "none" =>
        /\ classify.ex = CodedError(c23505) => classify.verdict = "permanent"
        /\ classify.ex = CodedError(c42501) => classify.verdict = "permanent"
        /\ classify.ex = CodedError(c08006) => classify.verdict = "transient"
        /\ (classify.ex.hasCode /\ ~InFixedPatterns(classify.ex.code)) =>
                classify.verdict = "transient"
        /\ ~classify.ex.hasCode => classify.verdict = "transient"

C6_Witness ==
    /\ classify.verdict = "transient"
    /\ classify.ex.hasCode
    /\ Len(classify.ex.code) = 6
    /\ classify.ex.code[1] = "2"
    /\ classify.ex.code[2] = "3"

\* ------------------------------------------------------------------ C8
\* The scheduler keeps calling uploadData against a backend that answers
\* the poisoned entries with a permanent fault and every other entry with
\* success; each step of a call that can be taken is eventually taken.
LiveInit ==
    /\ queue \in QueuesOf(MaxPending)
    /\ backend = [t \in Tables |-> NoData]
    /\ \E e \in CrudEntry : poison = {e}
    /\ AppIdle
    /\ CallInit
    /\ ClassifyIdle
    /\ ReplayIdle

LiveNext ==
    \/ UploadNoTransaction
    \/ UploadBegin
    \/ LoopDispatch
    \/ RespondOk
    \/ RespondError
    \/ CompleteOk
    \/ CompleteThrows
    \/ CatchDiscardOk
    \/ CatchDiscardThrows
    \/ CatchRethrow

LiveSpec ==
    /\ LiveInit
    /\ [][LiveNext]_vars
    /\ WF_vars(UploadBegin)
    /\ WF_vars(LoopDispatch)
    /\ WF_vars(RespondOk)
    /\ WF_vars(RespondError)
    /\ WF_vars(CompleteOk)
    /\ WF_vars(CatchDiscardOk)
    /\ WF_vars(CatchRethrow)

HeadPoisoned == queue # <<>> /\ \E j \in 1..Len(Head(queue)) : Head(queue)[j] \in poison

\* C8: a transaction at the head of the queue with an entry the backend
\* always answers with a permanent fault eventually leaves the queue.
C8_PermanentFaultNeverBlocks ==
    \A n \in 1..MaxPending : (Len(queue) = n /\ HeadPoisoned) ~> (Len(queue) < n)

\* ----------------------------------------------------------------- C10
\* One transaction against the backend twice: the first pass gets success
\* for entries 1..failAt-1 and a transient fault for entry failAt, the
\* second pass gets success for every entry.
ReplayValues == Values
ReplayOpData == UNION {[D -> ReplayValues] : D \in SUBSET Columns}
ReplayEntry ==
    {[table |-> t, op |-> o, id |-> i, opData |-> d] :
        t \in Tables, o \in {PUT, PATCH}, i \in Ids, d \in ReplayOpData}
    \cup {[table |-> t, op |-> DELETE, id |-> i, opData |-> NoData] :
        t \in Tables, i \in Ids}
ReplayBatches == {b \in SeqsUpTo(ReplayEntry, MaxBatchLen) : Len(b) >= 1}

ReplayInit ==
    /\ queue = <<>>
    /\ backend = [t \in Tables |-> NoData]
    /\ poison = {}
    /\ AppIdle
    /\ CallInit
    /\ ClassifyIdle
    /\ \E b \in BackendStates : \E c \in ReplayBatches : \E k \in 1..Len(c) :
          replay = [initial |-> b, rows |-> b, crud |-> c, failAt |-> k,
                    pass |-> 1, idx |-> 0]

\* lines 413-430: an entry is sent and answered with success
ReplayApply ==
    /\ replay.pass \in {1, 2}
    /\ replay.idx < (IF replay.pass = 1 THEN replay.failAt - 1 ELSE Len(replay.crud))
    /\ replay' = [replay EXCEPT
            !.rows = ApplyRequest(@, RequestOf(replay.crud[replay.idx + 1])),
            !.idx = @ + 1]
    /\ UNCHANGED <<queue, backend, poison, classify, appVars, callVars, histVars>>

\* lines 430-459 and 403-413: entry failAt is answered with a transient fault,
\* the call raises, and the next call starts the loop over
ReplayFail ==
    /\ replay.pass = 1
    /\ replay.idx = replay.failAt - 1
    /\ replay' = [replay EXCEPT !.pass = 2, !.idx = 0]
    /\ UNCHANGED <<queue, backend, poison, classify, appVars, callVars, histVars>>

\* line 438: the second pass is through
ReplayDone ==
    /\ replay.pass = 2
    /\ replay.idx = Len(replay.crud)
    /\ replay' = [replay EXCEPT !.pass = 3]
    /\ UNCHANGED <<queue, backend, poison, classify, appVars, callVars, histVars>>

ReplayNext == ReplayApply \/ ReplayFail \/ ReplayDone

ReplaySpec == ReplayInit /\ [][ReplayNext]_vars

\* C10 as stated: the rows after the failed pass and the whole second pass
\* are the rows after sending the transaction once.
C10_ReplayEqualsOnce ==
    replay.pass = 3 => replay.rows = ApplyAll(replay.initial, replay.crud)

\* every PUT of the transaction carries a value for every column
FullPuts(crud) ==
    \A j \in 1..Len(crud) : crud[j].op = PUT => DOMAIN crud[j].opData = Columns

\* C10 amended: for a transaction whose PUT entries carry every column, the
\* rows after the failed pass and the whole second pass are the rows after
\* sending the transaction once.
C10_ReplayEqualsOnceFullPuts ==
    (replay.pass = 3 /\ FullPuts(replay.crud)) =>
        replay.rows = ApplyAll(replay.initial, replay.crud)

C10_Witness ==
    /\ replay.pass = 3
    /\ FullPuts(replay.crud)
    /\ replay.failAt = 3
    /\ replay.crud[1].op = PATCH
    /\ replay.crud[2].op = PUT
    /\ replay.rows # replay.initial


\* ----------------------------------------------------------------- C12
\* C12: within one invocation at most one request is in flight; a request
\* is sent only when every earlier one has been answered with success, so
\* the requests sent are the first entries of the transaction, once each,
\* and nothing is sent after a fault.
C12_StrictlySequential ==
    /\ Len(inflight) <= 1
    /\ inflight # <<>> => pc = "await"
    /\ transaction # <<>> =>
        /\ Len(requests) = idx + (IF inflight # <<>> \/ fault # <<>> THEN 1 ELSE 0)
        /\ Len(requests) <= Len(Crud)
        /\ requests = ExpectedRequests(Len(requests))
        /\ inflight # <<>> => inflight[1] = requests[Len(requests)]
        /\ fault # <<>> => Len(requests) = fault[1].at

C12_Witness ==
    /\ pc = "await"
    /\ idx = 2
    /\ Len(requests) = 3
    /\ Crud[2] = Crud[3]


\* ----------------------------------------------------------------- C11
\* One loop iteration against a backend of two tables with two row ids.
\* everything of uploadData and of the side specifications at rest
UploadIdle ==
    /\ queue = <<>>
    /\ backend = [t \in Tables |-> NoData]
    /\ poison = {}
    /\ CallInit
    /\ ClassifyIdle
    /\ ReplayIdle

DispatchTables == {"todos", "lists"}
DispatchIds == {1, 2}
DispatchBackends == [DispatchTables -> UNION {[P -> Rows] : P \in SUBSET DispatchIds}]
DispatchEntry ==
    {[table |-> t, op |-> o, id |-> i, opData |-> d] :
        t \in DispatchTables, o \in {PUT, PATCH}, i \in DispatchIds, d \in ReplayOpData}
    \cup {[table |-> t, op |-> DELETE, id |-> i, opData |-> NoData] :
        t \in DispatchTables, i \in DispatchIds}

DispatchInit ==
    /\ UploadIdle
    /\ ConnectorNew
    /\ authSession = <<>>
    /\ TodoListNew
    /\ \E b \in DispatchBackends : \E e \in DispatchEntry :
          dispatch = [phase |-> "loop", before |-> b, rows |-> b, op |-> e, sent |-> <<>>]

appRest == <<connVars, connHist, viewVars, todoVars>>
uploadRest == <<queue, backend, poison, classify, replay, callVars, histVars>>

\* lines 414-427: the entry is turned into its request
DispatchSend ==
    /\ dispatch.phase = "loop"
    /\ dispatch' = [dispatch EXCEPT !.sent = <<RequestOf(dispatch.op)>>, !.phase = "await"]
    /\ UNCHANGED <<uploadRest, appRest>>

\* lines 420-430: the backend carries the request out and answers success
DispatchSucceed ==
    /\ dispatch.phase = "await"
    /\ dispatch' = [dispatch EXCEPT !.rows = ApplyRequest(@, dispatch.sent[1]),
                                    !.phase = "done"]
    /\ UNCHANGED <<uploadRest, appRest>>

\* lines 430-435: the backend answers with result.error and writes nothing
DispatchFault ==
    /\ dispatch.phase = "await"
    /\ dispatch' = [dispatch EXCEPT !.phase = "failed"]
    /\ UNCHANGED <<uploadRest, appRest>>

DispatchNext == DispatchSend \/ DispatchSucceed \/ DispatchFault

DispatchSpec == DispatchInit /\ [][DispatchNext]_vars

\* the row of table t with id i is as it was before the request
RowUntouched(t, i) ==
    /\ i \in DOMAIN dispatch.rows[t] <=> i \in DOMAIN dispatch.before[t]
    /\ i \in DOMAIN dispatch.rows[t] => dispatch.rows[t][i] = dispatch.before[t][i]

\* C11: a PUT is sent as an upsert of the payload under the entry's id, a
\* PATCH as an update of the payload's columns of the row with the entry's
\* id, a DELETE as a delete of the row with the entry's id, each to the
\* entry's table; no other row and no other table is written.
C11_DispatchByKind ==
    LET op == dispatch.op
        old == dispatch.before[op.table]
        new == dispatch.rows[op.table]
    IN /\ dispatch.phase \in {"await", "done", "failed"} =>
            /\ dispatch.sent[1].table = op.table
            /\ dispatch.sent[1].id = op.id
            /\ dispatch.sent[1].method =
                    (CASE op.op = PUT -> "upsert"
                       [] op.op = PATCH -> "update"
                       [] op.op = DELETE -> "delete")
            /\ op.op # DELETE => dispatch.sent[1].data = op.opData
       /\ dispatch.phase = "failed" =>
            \A t \in DispatchTables : \A i \in DispatchIds : RowUntouched(t, i)
       /\ dispatch.phase = "done" =>
            /\ \A t \in DispatchTables : \A i \in DispatchIds :
                    (t # op.table \/ i # op.id) => RowUntouched(t, i)
            /\ op.op = PUT =>
                    /\ op.id \in DOMAIN new
                    /\ \A c \in Columns :
                          new[op.id][c] =
                            IF c \in DOMAIN op.opData THEN op.opData[c]
                            ELSE IF op.id \in DOMAIN old THEN old[op.id][c]
                            ELSE DefaultValue
            /\ op.op = PATCH =>
                    /\ op.id \in DOMAIN new <=> op.id \in DOMAIN old
                    /\ op.id \in DOMAIN new =>
                          \A c \in Columns :
                              new[op.id][c] =
                                IF c \in DOMAIN op.opData THEN op.opData[c]
                                ELSE old[op.id][c]
            /\ op.op = DELETE => op.id \notin DOMAIN new

C11_Witness ==
    /\ dispatch.phase = "done"
    /\ dispatch.op.op = PATCH
    /\ dispatch.op.table = "lists"
    /\ dispatch.op.id = 2
    /\ DOMAIN dispatch.before["lists"] = {1, 2}
    /\ dispatch.rows # dispatch.before


\* ------------------------------------------------------- C13 .. C16
\* The connector's session life cycle and the TodoList view's routing.
MaxCalls == 4
Sessions == {"s1", "s2"}
NoSession == <<>>
SessionOrNull == {NoSession} \cup {<<s>> : s \in Sessions}

SessionStarted(s) == [kind |-> "sessionStarted", session |-> <<s>>]
Initialized == [kind |-> "initialized", session |-> NoSession]

\* the code after an await, or a called method, running to completion
Frame(fn, session) == [fn |-> fn, at |-> "updateSession", session |-> session]

ConnInit ==
    /\ UploadIdle
    /\ DispatchIdle
    /\ TodoListNew
    /\ ConnectorNew
    /\ authSession \in SessionOrNull

connRest == <<uploadRest, dispatch, todoVars>>

\* lines 353-357: init() returns at once when ready, else asks for the session
InitCall ==
    /\ running = <<>>
    /\ calls < MaxCalls
    /\ calls' = calls + 1
    /\ IF ready
       THEN UNCHANGED <<fetches, initAwaiting>>
       ELSE /\ fetches' = fetches + 1
            /\ initAwaiting' = initAwaiting + 1
    /\ UNCHANGED <<ready, currentSession, authSession, loginAwaiting, running,
                   updates, events, loginErrors, viewVars, connRest>>

\* lines 358-359: getSession() resolves and init() hands its session on
InitResume_SkipsUpdate ==
    /\ running = <<>>
    /\ initAwaiting > 0
    /\ initAwaiting' = initAwaiting - 1
    /\ running' = <<[Frame("init", authSession) EXCEPT !.at = "ready"]>>
    /\ UNCHANGED <<ready, currentSession, authSession, loginAwaiting, calls, fetches,
                   updates, events, loginErrors, viewVars, connRest>>

InitResume ==
    /\ running = <<>>
    /\ initAwaiting > 0
    /\ initAwaiting' = initAwaiting - 1
    /\ running' = <<Frame("init", authSession)>>
    /\ updates' = Append(updates, authSession)
    /\ UNCHANGED <<ready, currentSession, authSession, loginAwaiting, calls, fetches,
                   events, loginErrors, viewVars, connRest>>

\* lines 365-372: login() asks the auth client to sign in
LoginCall ==
    /\ running = <<>>
    /\ calls < MaxCalls
    /\ calls' = calls + 1
    /\ loginAwaiting' = loginAwaiting + 1
    /\ UNCHANGED <<ready, currentSession, authSession, initAwaiting, running, fetches,
                   updates, events, loginErrors, viewVars, connRest>>

\* lines 366-378: the sign-in succeeds; the client keeps the session
LoginOk ==
    /\ running = <<>>
    /\ loginAwaiting > 0
    /\ loginAwaiting' = loginAwaiting - 1
    /\ \E s \in Sessions :
          /\ authSession' = <<s>>
          /\ running' = <<Frame("login", <<s>>)>>
          /\ updates' = Append(updates, <<s>>)
    /\ UNCHANGED <<ready, currentSession, initAwaiting, calls, fetches,
                   events, loginErrors, viewVars, connRest>>

\* lines 374-376: the sign-in returns an error and login() throws it
LoginError_StoresNull ==
    /\ running = <<>>
    /\ loginAwaiting > 0
    /\ loginAwaiting' = loginAwaiting - 1
    /\ loginErrors' = loginErrors + 1
    /\ currentSession' = NoSession
    /\ UNCHANGED <<ready, authSession, initAwaiting, running, calls, fetches,
                   updates, events, viewVars, connRest>>

LoginError ==
    /\ running = <<>>
    /\ loginAwaiting > 0
    /\ loginAwaiting' = loginAwaiting - 1
    /\ loginErrors' = loginErrors + 1
    /\ UNCHANGED <<ready, currentSession, authSession, initAwaiting, running, calls,
                   fetches, updates, events, viewVars, connRest>>

\* line 463: updateSession(session) called from outside
UpdateSessionCall ==
    /\ running = <<>>
    /\ calls < MaxCalls
    /\ calls' = calls + 1
    /\ \E s \in SessionOrNull :
          /\ running' = <<Frame("updateSession", s)>>
          /\ updates' = Append(updates, s)
    /\ UNCHANGED <<ready, currentSession, authSession, initAwaiting, loginAwaiting,
                   fetches, events, loginErrors, viewVars, connRest>>


\* lines 463-469: store the session; tell the listeners of a session that is
\* not null; then init() goes on and other callers are finished
RunUpdateSession ==
    /\ running # <<>>
    /\ running[1].at = "updateSession"
    /\ currentSession' = running[1].session
    /\ events' = IF running[1].session = NoSession
                 THEN events
                 ELSE Append(events, SessionStarted(running[1].session[1]))
    /\ running' = IF running[1].fn = "init"
                  THEN <<[running[1] EXCEPT !.at = "ready"]>>
                  ELSE <<>>
    /\ UNCHANGED <<ready, authSession, initAwaiting, loginAwaiting, calls, fetches,
                   updates, loginErrors, viewVars, connRest>>

\* line 361: this.ready = true
InitSetReady ==
    /\ running # <<>>
    /\ running[1].at = "ready"
    /\ ready' = TRUE
    /\ running' = <<[running[1] EXCEPT !.at = "initialized"]>>
    /\ UNCHANGED <<currentSession, authSession, initAwaiting, loginAwaiting,
                   connHist, viewVars, connRest>>

\* lines 606-614: what a registered initialized callback of the view pushes
ListenerPush ==
    [to |-> IF currentSession # NoSession THEN "/" ELSE "/login",
     session |-> currentSession, on |-> "initialized"]

\* line 362: every initialized listener is called, the view's among them
InitNotify ==
    /\ running # <<>>
    /\ running[1].at = "initialized"
    /\ events' = Append(events, Initialized)
    /\ pushes' = pushes \o [i \in 1..viewListeners |-> ListenerPush]
    /\ running' = <<>>
    /\ UNCHANGED <<ready, currentSession, authSession, initAwaiting, loginAwaiting,
                   calls, fetches, updates, loginErrors, viewListeners, connRest>>

\* lines 602-619: the view is set up: it waits for initialized when the
\* connector is not ready, and pushes "/" when it is
TodoListSetup ==
    /\ running = <<>>
    /\ calls < MaxCalls
    /\ calls' = calls + 1
    /\ IF ~ready
       THEN /\ viewListeners' = viewListeners + 1
            /\ UNCHANGED pushes
       ELSE /\ pushes' = Append(pushes,
                    [to |-> "/", session |-> currentSession, on |-> "setup"])
            /\ UNCHANGED viewListeners
    /\ UNCHANGED <<connVars, fetches, updates, events, loginErrors, connRest>>

ConnNext ==
    \/ InitCall
    \/ InitResume
    \/ LoginCall
    \/ LoginOk
    \/ LoginError
    \/ UpdateSessionCall
    \/ RunUpdateSession
    \/ InitSetReady
    \/ InitNotify
    \/ TodoListSetup

ConnSpec == ConnInit /\ [][ConnNext]_vars

CountOf(log, kind) == Cardinality({i \in DOMAIN log : log[i].kind = kind})

\* C13: every route the view pushes while nobody is logged in is the login
\* page, from a set-up with the connector ready and from the initialized
\* callback of a set-up with the connector not ready.
C13_NotLoggedInGoesToLogin ==
    \A i \in DOMAIN pushes :
        pushes[i].session = NoSession => pushes[i].to = "/login"

\* C14: over all init() calls, overlapping ones too, the session is fetched at
\* most once and initialized is notified once, and not before an init().
C14_InitOnce ==
    /\ fetches <= 1
    /\ CountOf(events, "initialized") <= 1
    /\ ready /\ running = <<>> => CountOf(events, "initialized") = 1


\* C15: init() sets ready only when currentSession already holds the fetched
\* session; when initialized is notified for a session that is not null, the
\* notification just before it is that session's sessionStarted; ready never
\* goes back to false.
C15_ReadyAfterSession ==
    [][/\ (~ready /\ ready') =>
            /\ running # <<>>
            /\ running[1].fn = "init"
            /\ currentSession = running[1].session
            /\ currentSession' = currentSession
       /\ (events' # events /\ events'[Len(events')] = Initialized) =>
            /\ ready
            /\ currentSession # NoSession =>
                  /\ events # <<>>
                  /\ events[Len(events)] = SessionStarted(currentSession[1])
       /\ ready => ready'
      ]_vars

C15_Witness ==
    /\ ready
    /\ Len(events) >= 2
    /\ events[Len(events)] = Initialized
    /\ events[Len(events) - 1] = SessionStarted(currentSession[1])
    /\ calls > 1

IsSessionStarted(e) == e.kind = "sessionStarted"
IsSession(s) == s # NoSession

\* C16: between calls, currentSession is the argument of the latest
\* updateSession (null before the first), and the sessionStarted
\* notifications are the arguments that were not null, in order; a login whose
\* sign-in fails throws and changes neither currentSession nor ready nor what
\* the listeners were told.
C16_SessionTracksUpdates ==
    /\ [](running = <<>> =>
            /\ currentSession =
                  IF updates = <<>> THEN NoSession ELSE updates[Len(updates)]
            /\ LET started == SelectSeq(events, IsSessionStarted)
                   stored == SelectSeq(updates, IsSession)
               IN /\ Len(started) = Len(stored)
                  /\ \A i \in DOMAIN started : started[i].session = stored[i])
    /\ [][loginErrors' # loginErrors =>
            /\ loginErrors' = loginErrors + 1
            /\ loginAwaiting' = loginAwaiting - 1
            /\ UNCHANGED <<currentSession, ready, events, pushes, updates>>
         ]_vars

C16_Witness ==
    /\ running = <<>>
    /\ loginErrors > 0
    /\ Len(updates) >= 2
    /\ updates[1] = NoSession
    /\ currentSession # NoSession


\* ------------------------------------------------------- C17, C18
\* The local todo list of lines 87-118: an input and an array of todos.
MaxTodos == 3
WhiteSpace == {" "}
\* what is typed into the input: nothing, blanks only, text, text after a blank
TodoInputs == {<<>>, <<" ">>, <<" ", " ">>, <<"a">>, <<" ", "a">>}

RECURSIVE TrimStart(_)
TrimStart(s) ==
    IF s # <<>> /\ Head(s) \in WhiteSpace THEN TrimStart(Tail(s)) ELSE s

RECURSIVE TrimEnd(_)
TrimEnd(s) ==
    IF s # <<>> /\ s[Len(s)] \in WhiteSpace
    THEN TrimEnd(SubSeq(s, 1, Len(s) - 1))
    ELSE s

\* String.prototype.trim
Trim(s) == TrimEnd(TrimStart(s))

TodoInit ==
    /\ UploadIdle
    /\ DispatchIdle
    /\ ConnectorNew
    /\ authSession = <<>>
    /\ TodoListNew

todoRest == <<uploadRest, dispatch, connVars, connHist, viewVars>>

\* line 39: v-model="newTodo"
TypeInput ==
    /\ \E s \in TodoInputs : newTodo' = s
    /\ todoOp' = [op |-> "input"]
    /\ UNCHANGED <<todos, todoRest>>

\* variant of addTodo: the input is compared with "" without trim()
AddTodo_NoTrim ==
    /\ Len(todos) < MaxTodos
    /\ todoOp' = [op |-> "addTodo", input |-> newTodo, before |-> todos]
    /\ IF newTodo # <<>>
       THEN /\ todos' = Append(todos, [id |-> Len(todos) + 1,
                                       description |-> newTodo,
                                       completed |-> 0])
            /\ newTodo' = <<>>
       ELSE UNCHANGED <<todos, newTodo>>
    /\ UNCHANGED todoRest

\* lines 100-109
AddTodo ==
    /\ Len(todos) < MaxTodos
    /\ todoOp' = [op |-> "addTodo", input |-> newTodo, before |-> todos]
    /\ IF Trim(newTodo) # <<>>
       THEN /\ todos' = Append(todos, [id |-> Len(todos) + 1,
                                       description |-> newTodo,
                                       completed |-> 0])
            /\ newTodo' = <<>>
       ELSE UNCHANGED <<todos, newTodo>>
    /\ UNCHANGED todoRest

\* lines 111-113, index counted from 1
UpdateTodo ==
    /\ \E index \in DOMAIN todos :
          /\ todos' = [todos EXCEPT ![index].completed = IF @ = 1 THEN 0 ELSE 1]
          /\ todoOp' = [op |-> "updateTodo", index |-> index,
                        input |-> newTodo, before |-> todos]
    /\ UNCHANGED <<newTodo, todoRest>>

\* lines 115-117: splice(index, 1), index counted from 1
RemoveTodo ==
    /\ \E index \in DOMAIN todos :
          /\ todos' = SubSeq(todos, 1, index - 1) \o SubSeq(todos, index + 1, Len(todos))
          /\ todoOp' = [op |-> "removeTodo", index |-> index,
                        input |-> newTodo, before |-> todos]
    /\ UNCHANGED <<newTodo, todoRest>>

TodoNext == TypeInput \/ AddTodo \/ UpdateTodo \/ RemoveTodo

TodoSpec == TodoInit /\ [][TodoNext]_vars

\* C17: the ids of the todos in the list are pairwise distinct.
C17_IdsDistinct ==
    \A i \in DOMAIN todos : \A j \in DOMAIN todos :
        i # j => todos[i].id # todos[j].id

\* C18: addTodo on an input that is empty or blank changes neither list nor
\* input; on any other input it appends one todo with that description and
\* completed = 0 after the unchanged earlier todos and empties the input;
\* updateTodo(i) flips completed of item i between 0 and 1 and changes nothing
\* else; completed is 0 or 1 throughout.
C18_AddAndUpdateEffects ==
    /\ \A i \in DOMAIN todos : todos[i].completed \in {0, 1}
    /\ todoOp.op = "addTodo" =>
          IF Trim(todoOp.input) = <<>>
          THEN todos = todoOp.before /\ newTodo = todoOp.input
          ELSE /\ Len(todos) = Len(todoOp.before) + 1
               /\ SubSeq(todos, 1, Len(todoOp.before)) = todoOp.before
               /\ todos[Len(todos)].description = todoOp.input
               /\ todos[Len(todos)].completed = 0
               /\ newTodo = <<>>
    /\ todoOp.op = "updateTodo" =>
          /\ Len(todos) = Len(todoOp.before)
          /\ newTodo = todoOp.input
          /\ \A j \in DOMAIN todos :
                IF j = todoOp.index
                THEN /\ todos[j].id = todoOp.before[j].id
                     /\ todos[j].description = todoOp.before[j].description
                     /\ todos[j].completed = 1 - todoOp.before[j].completed
                ELSE todos[j] = todoOp.before[j]

C18_Witness ==
    /\ todoOp.op = "addTodo"
    /\ todoOp.input = <<" ", " ">>
    /\ Len(todos) = 2
    /\ todos[1].completed = 1
    /\ todos[2].description = <<" ", "a">>

====
